---- MODULE Spec2Model ----
(***************************************************************************)
(* Clinical records service (python_hmis/app.py): the relational store,    *)
(* the Flask request handlers that read and write it, and SQLite's         *)
(* transaction discipline (one writer, uncommitted changes private to the  *)
(* writer, immediate foreign keys with ON DELETE CASCADE).                 *)
(*                                                                         *)
(* Every request is served by a worker p: Request(p, r) is Flask's         *)
(* dispatch; the handler's first action runs the before_request hook       *)
(* (ensure_db -> init_db), parses and validates the input and performs     *)
(* the handler's SELECTs; the following actions are its write statements   *)
(* and its commit.                                                         *)
(***************************************************************************)
EXTENDS Integers, FiniteSets, Sequences, TLC

VARIABLES
    db,     \* the committed content of hmis.db: one field per table, plus sqlite_sequence
    wtxn,   \* the open write transaction: its owner and its private working copy
    pc,     \* pc[p]: where worker p is in its handler
    req,    \* req[p]: the request worker p is serving
    loc,    \* loc[p]: the handler's local variables that outlive one statement
    resp,   \* resp[p]: the response of the last request worker p completed
    clock   \* datetime.utcnow()

vars == <<db, wtxn, pc, req, loc, resp, clock>>

----------------------------------------------------------------------------
(* Bounds *)

NumProcs == 2
MaxId    == 2
MaxClock == 2

Procs == 1..NumProcs

(* SQL NULL / Python None: in a text column, and in an integer column (whose
   values, in the model, are never negative one). NoId is the lastrowid of a
   statement that inserted nothing (AUTOINCREMENT ids start at 1). *)
NULL    == "NULL"
NoId    == 0
NullInt == 0 - 1

NoTxn  == [owner |-> 0]
NoReq  == [op |-> "none"]
NoLoc  == [at |-> "none"]
NoResp == [op |-> "none"]

----------------------------------------------------------------------------
(* Input conversions *)

(* str.strip() on the request values the model submits. *)
strip(s) ==
    CASE s = " P1 " -> "P1"
      [] s = " Dr X " -> "Dr X"
      [] s = "  "   -> ""
      [] OTHER      -> s

(* (x or "").strip() : a missing field (None) reads as "". *)
field(s) == IF s = NULL THEN "" ELSE strip(s)

(* (x or "0").strip() : a missing or empty field reads as "0". *)
field0(s) == IF s = NULL \/ s = "" THEN "0" ELSE strip(s)

(* (x or "").strip() or None *)
field_or_none(s) == IF field(s) = "" THEN NULL ELSE field(s)

(* Python int() on a str: [ok, n]; ValueError when ok is FALSE. *)
int_of_str(s) ==
    CASE s = "0"   -> [ok |-> TRUE,  n |-> 0]
      [] s = "1"   -> [ok |-> TRUE,  n |-> 1]
      [] s = "2"   -> [ok |-> TRUE,  n |-> 2]
      [] s = "7"   -> [ok |-> TRUE,  n |-> 7]
      [] s = "30"  -> [ok |-> TRUE,  n |-> 30]
      [] s = "72"  -> [ok |-> TRUE,  n |-> 72]
      [] s = "80"  -> [ok |-> TRUE,  n |-> 80]
      [] s = "120" -> [ok |-> TRUE,  n |-> 120]
      [] s = "-5"  -> [ok |-> TRUE,  n |-> 0 - 5]
      [] OTHER     -> [ok |-> FALSE, n |-> 0]

(* A JSON value as request.get_json() delivers it: an int, a str, or null /
   absent (None). *)
JInt(n) == [t |-> "int", n |-> n, s |-> ""]
JStr(s) == [t |-> "str", n |-> 0, s |-> s]
JNull   == [t |-> "null", n |-> 0, s |-> ""]

(* Python truthiness of a JSON value. *)
truthy(v) ==
    CASE v.t = "int" -> v.n # 0
      [] v.t = "str" -> v.s # ""
      [] OTHER       -> FALSE

(* Python int() on a JSON value: TypeError on None, ValueError on a bad str. *)
int_of_json(v) ==
    CASE v.t = "int" -> [ok |-> TRUE, n |-> v.n]
      [] v.t = "str" -> int_of_str(strip(v.s))
      [] OTHER       -> [ok |-> FALSE, n |-> 0]

(* Python float() on a str, for the whole-number and malformed samples the
   model submits: [ok, n]. *)
float_of_str(s) ==
    CASE s = "0"   -> [ok |-> TRUE,  n |-> 0]
      [] s = "37"  -> [ok |-> TRUE,  n |-> 37]
      [] s = "70"  -> [ok |-> TRUE,  n |-> 70]
      [] s = "80"  -> [ok |-> TRUE,  n |-> 80]
      [] s = "90"  -> [ok |-> TRUE,  n |-> 90]
      [] s = "175" -> [ok |-> TRUE,  n |-> 175]
      [] OTHER     -> [ok |-> FALSE, n |-> 0]

(* Python float() on a JSON value. *)
float_of_json(v) ==
    CASE v.t = "int" -> [ok |-> TRUE, n |-> v.n]
      [] v.t = "str" -> float_of_str(strip(v.s))
      [] OTHER       -> [ok |-> FALSE, n |-> 0]

----------------------------------------------------------------------------
(* The store *)

Tables == {"vitals", "prescriptions", "prescription_items", "medications",
           "lab_orders", "lab_order_items", "appointments"}

(* The three rows the seeding statement of init_db lists. *)
StarterTests ==
    { [id |-> 1, code |-> "CBC", is_active |-> 1],
      [id |-> 2, code |-> "GLU", is_active |-> 1],
      [id |-> 3, code |-> "LFT", is_active |-> 1] }

(* The lab_tests content of the database file the service is started on: a
   new file (empty), or an older database whose catalog was loaded before. *)
InitialCatalogs ==
    { {},
      { [id |-> 1, code |-> "CBC", is_active |-> 1],
        [id |-> 2, code |-> "GLU", is_active |-> 0],
        [id |-> 3, code |-> "LFT", is_active |-> 1] } }

EmptyDb(catalog) ==
    [ patients           |-> {},
      vitals             |-> {},
      prescriptions      |-> {},
      encounters         |-> {},
      problems           |-> {},
      allergies          |-> {},
      medications        |-> {},
      prescription_items |-> {},
      lab_tests          |-> catalog,
      lab_orders         |-> {},
      lab_order_items    |-> {},
      appointments       |-> {},
      seq                |-> [t \in Tables |-> 0] ]

PatientExists(d, usn) == \E pt \in d.patients : pt.usn = usn


----------------------------------------------------------------------------
(* SQL statements, as functions of the database content d they run against.
   A statement yields [err, db, lastrowid]: err is "none", or the exception
   sqlite3 raises, and then db is d (the statement is rolled back). Every
   connection comes from get_db, so foreign keys are enforced. *)

Done(d, id)  == [err |-> "none", db |-> d, lastrowid |-> id]
Raise(d, e)  == [err |-> e, db |-> d, lastrowid |-> NoId]

(* fk_patient on a connection that never set the PRAGMA. *)
fk_patient_off(d, usn) == TRUE

(* get_db sets PRAGMA foreign_keys = ON on every connection, so a child row's
   FOREIGN KEY (usn) REFERENCES patients(usn) is checked when it is written. *)
fk_patient(d, usn) == PatientExists(d, usn)

(* FOREIGN KEY (...) REFERENCES <table>(id) *)
fk_row(rows, id) == \E r \in rows : r.id = id

(* insert_patient on a table whose usn is no key. *)
insert_patient_nokey(d, row) == Done([d EXCEPT !.patients = @ \cup {row}], NoId)

(* INSERT INTO patients(...): usn is the PRIMARY KEY. *)
insert_patient(d, row) ==
    IF \E pt \in d.patients : pt.usn = row.usn
    THEN Raise(d, "IntegrityError")
    ELSE Done([d EXCEPT !.patients = @ \cup {row}], NoId)

(* delete_cascade with the cascade stopping at the tables that reference
   patients(usn). *)
delete_cascade_shallow(d, usn) ==
    [d EXCEPT
      !.patients      = {r \in @ : r.usn # usn},
      !.vitals        = {r \in @ : r.usn # usn},
      !.prescriptions = {r \in @ : r.usn # usn},
      !.encounters    = {r \in @ : r.usn # usn},
      !.problems      = {r \in @ : r.usn # usn},
      !.allergies     = {r \in @ : r.usn # usn},
      !.appointments  = {r \in @ : r.usn # usn},
      !.lab_orders    = {r \in @ : r.usn # usn}]

(* What deleting the patient usn leaves: ON DELETE CASCADE removes the rows
   of every table that references patients(usn), and with them the rows that
   reference the removed prescriptions(id) and lab_orders(id); a lab order's
   encounter_id is SET NULL where its encounter goes. *)
delete_cascade(d, usn) ==
    LET rx   == {r \in d.prescriptions : r.usn # usn}
        enc  == {r \in d.encounters : r.usn # usn}
        ord0 == {r \in d.lab_orders : r.usn # usn}
        ord  == { IF r.encounter_id = NullInt \/ (\E e \in enc : e.id = r.encounter_id)
                  THEN r ELSE [r EXCEPT !.encounter_id = NullInt] : r \in ord0 }
    IN  [d EXCEPT
          !.patients           = {r \in @ : r.usn # usn},
          !.vitals             = {r \in @ : r.usn # usn},
          !.prescriptions      = rx,
          !.encounters         = enc,
          !.problems           = {r \in @ : r.usn # usn},
          !.allergies          = {r \in @ : r.usn # usn},
          !.appointments       = {r \in @ : r.usn # usn},
          !.lab_orders         = ord,
          !.prescription_items = {i \in @ : \E r \in rx : r.id = i.prescription_id},
          !.lab_order_items    = {i \in @ : \E r \in ord : r.id = i.lab_order_id}]

(* DELETE FROM patients WHERE usn=? *)
delete_patient(d, usn) == Done(delete_cascade(d, usn), NoId)

(* INSERT INTO lab_orders(usn, ordered_at, status, notes) VALUES(?,?,'Ordered',?) *)
insert_lab_order(d, usn, now, notes) ==
    LET id == d.seq["lab_orders"] + 1
        row == [id |-> id, usn |-> usn, encounter_id |-> NullInt, ordered_at |-> now,
                status |-> "Ordered", notes |-> notes]
    IN  IF fk_patient(d, usn)
        THEN Done([d EXCEPT !.lab_orders = @ \cup {row}, !.seq["lab_orders"] = id], id)
        ELSE Raise(d, "IntegrityError")

(* insert_lab_order_item with the item attached to the order before. *)
insert_lab_order_item_prev(d, order_id, test_id) ==
    LET id == d.seq["lab_order_items"] + 1
        row == [id |-> id, lab_order_id |-> IF order_id > 1 THEN order_id - 1 ELSE order_id,
                lab_test_id |-> test_id,
                status |-> "Ordered", result_value |-> NULL, result_notes |-> NULL,
                result_at |-> NullInt]
    IN  Done([d EXCEPT !.lab_order_items = @ \cup {row},
                       !.seq["lab_order_items"] = id], id)

(* INSERT INTO lab_order_items(lab_order_id, lab_test_id) VALUES(?,?): status
   takes the column default 'Ordered', the result columns are NULL. *)
insert_lab_order_item(d, order_id, test_id) ==
    LET id == d.seq["lab_order_items"] + 1
        row == [id |-> id, lab_order_id |-> order_id, lab_test_id |-> test_id,
                status |-> "Ordered", result_value |-> NULL, result_notes |-> NULL,
                result_at |-> NullInt]
    IN  IF fk_row(d.lab_orders, order_id) /\ fk_row(d.lab_tests, test_id)
        THEN Done([d EXCEPT !.lab_order_items = @ \cup {row},
                            !.seq["lab_order_items"] = id], id)
        ELSE Raise(d, "IntegrityError")

(* update_item_result with WHERE id=? AND status='Ordered'. *)
update_item_result_once(d, item_id, value, notes, now) ==
    Done([d EXCEPT !.lab_order_items =
            { IF i.id = item_id /\ i.status = "Ordered"
              THEN [i EXCEPT !.result_value = value, !.result_notes = notes,
                             !.result_at = now, !.status = "Completed"]
              ELSE i : i \in @ }], NoId)

(* update_item_result without its WHERE clause. *)
update_item_result_everywhere(d, item_id, value, notes, now) ==
    Done([d EXCEPT !.lab_order_items =
            { [i EXCEPT !.result_value = value, !.result_notes = notes,
                        !.result_at = now, !.status = "Completed"] : i \in @ }], NoId)

(* UPDATE lab_order_items SET result_value=?, result_notes=?, result_at=?,
   status='Completed' WHERE id=? *)
update_item_result(d, item_id, value, notes, now) ==
    Done([d EXCEPT !.lab_order_items =
            { IF i.id = item_id
              THEN [i EXCEPT !.result_value = value, !.result_notes = notes,
                             !.result_at = now, !.status = "Completed"]
              ELSE i : i \in @ }], NoId)

(* update_order_status with the CASE leaving every status as it is. *)
update_order_status_never(d, item_id) == Done(d, NoId)

(* UPDATE lab_orders SET status = CASE WHEN NOT EXISTS (an item of the order
   whose status <> 'Completed') THEN 'Completed' ELSE status END
   WHERE id = (SELECT lab_order_id FROM lab_order_items WHERE id = ?) *)
update_order_status(d, item_id) ==
    Done([d EXCEPT !.lab_orders =
            { IF \E i \in d.lab_order_items : i.id = item_id /\ i.lab_order_id = o.id
              THEN [o EXCEPT !.status =
                      IF ~ \E j \in d.lab_order_items :
                              j.lab_order_id = o.id /\ j.status # "Completed"
                      THEN "Completed" ELSE @]
              ELSE o : o \in @ }], NoId)


(* bmi REAL GENERATED ALWAYS AS (weight / ((height/100.0) * (height/100.0)))
   STORED, in hundredths, rounded down; SQLite's division by zero yields NULL. *)
bmi(weight, height) ==
    IF height = 0 THEN NullInt ELSE (weight * 1000000) \div (height * height)

(* insert_vitals as INSERT OR REPLACE on a table keyed by usn. *)
insert_vitals_replace(d, v, now) ==
    LET id  == d.seq["vitals"] + 1
        row == [id |-> id, usn |-> v.usn, weight |-> v.weight, height |-> v.height,
                bmi |-> bmi(v.weight, v.height),
                blood_pressure_systolic |-> v.bp_sys,
                blood_pressure_diastolic |-> v.bp_dia,
                heart_rate |-> v.hr, temperature |-> v.temp,
                respiratory_rate |-> v.resp_rate, oxygen_saturation |-> v.o2_sat,
                notes |-> v.notes, recorded_at |-> now]
    IN  IF fk_patient(d, v.usn)
        THEN Done([d EXCEPT !.vitals = {r \in @ : r.usn # v.usn} \cup {row},
                            !.seq["vitals"] = id], id)
        ELSE Raise(d, "IntegrityError")

(* INSERT INTO vitals(usn, weight, height, ..., notes, recorded_at) *)
insert_vitals(d, v, now) ==
    LET id  == d.seq["vitals"] + 1
        row == [id |-> id, usn |-> v.usn, weight |-> v.weight, height |-> v.height,
                bmi |-> bmi(v.weight, v.height),
                blood_pressure_systolic |-> v.bp_sys,
                blood_pressure_diastolic |-> v.bp_dia,
                heart_rate |-> v.hr, temperature |-> v.temp,
                respiratory_rate |-> v.resp_rate, oxygen_saturation |-> v.o2_sat,
                notes |-> v.notes, recorded_at |-> now]
    IN  IF fk_patient(d, v.usn)
        THEN Done([d EXCEPT !.vitals = @ \cup {row}, !.seq["vitals"] = id], id)
        ELSE Raise(d, "IntegrityError")

(* INSERT INTO prescriptions(usn, notes, prescribed_at) *)
insert_prescription(d, usn, notes, now) ==
    LET id  == d.seq["prescriptions"] + 1
        row == [id |-> id, usn |-> usn, notes |-> notes, prescribed_at |-> now]
    IN  IF fk_patient(d, usn)
        THEN Done([d EXCEPT !.prescriptions = @ \cup {row},
                            !.seq["prescriptions"] = id], id)
        ELSE Raise(d, "IntegrityError")

(* Equality as a UNIQUE index sees it: NULL equals nothing, itself included. *)
sql_eq(a, b) == a # NULL /\ b # NULL /\ a = b

(* INSERT INTO medications(name): strength and form are NULL, and SQLite's
   UNIQUE(name, strength, form) holds rows with a NULL in it to be distinct. *)
insert_medication(d, name) ==
    LET id  == d.seq["medications"] + 1
        row == [id |-> id, name |-> name, strength |-> NULL, form |-> NULL]
    IN  IF \E m \in d.medications :
              sql_eq(m.name, name) /\ sql_eq(m.strength, NULL) /\ sql_eq(m.form, NULL)
        THEN Raise(d, "IntegrityError")
        ELSE Done([d EXCEPT !.medications = @ \cup {row}, !.seq["medications"] = id], id)

(* INSERT INTO prescription_items(prescription_id, medication_id, dose, route,
   frequency, duration_days, instructions) *)
insert_prescription_item(d, it) ==
    LET id  == d.seq["prescription_items"] + 1
        row == [id |-> id, prescription_id |-> it.prescription_id,
                medication_id |-> it.medication_id, dose |-> it.dose,
                route |-> it.route, frequency |-> it.frequency,
                duration_days |-> it.duration_days, instructions |-> it.instructions]
    IN  IF fk_row(d.prescriptions, it.prescription_id)
           /\ fk_row(d.medications, it.medication_id)
        THEN Done([d EXCEPT !.prescription_items = @ \cup {row},
                            !.seq["prescription_items"] = id], id)
        ELSE Raise(d, "IntegrityError")

(* insert_appointment leaving the status to a column default of 'Requested'. *)
insert_appointment_requested(d, a) ==
    LET id  == d.seq["appointments"] + 1
        row == [id |-> id, usn |-> a.usn, starts_at |-> a.starts_at,
                ends_at |-> a.ends_at, status |-> "Requested", title |-> a.title,
                clinician |-> a.clinician, notes |-> a.notes]
    IN  IF fk_patient(d, a.usn)
        THEN Done([d EXCEPT !.appointments = @ \cup {row},
                            !.seq["appointments"] = id], id)
        ELSE Raise(d, "IntegrityError")

(* INSERT INTO appointments(usn, starts_at, ends_at, status, title, clinician,
   notes) VALUES (?,?,?,'Scheduled',?,?,?) *)
insert_appointment(d, a) ==
    LET id  == d.seq["appointments"] + 1
        row == [id |-> id, usn |-> a.usn, starts_at |-> a.starts_at,
                ends_at |-> a.ends_at, status |-> "Scheduled", title |-> a.title,
                clinician |-> a.clinician, notes |-> a.notes]
    IN  IF fk_patient(d, a.usn)
        THEN Done([d EXCEPT !.appointments = @ \cup {row},
                            !.seq["appointments"] = id], id)
        ELSE Raise(d, "IntegrityError")

----------------------------------------------------------------------------
(* init_db: the CREATE TABLE IF NOT EXISTS script changes nothing on the
   tables of d; then, when lab_tests is empty, the seeding statement is
   evaluated, and its parameter list names NULL, which Python does not
   define: NameError, before any row is inserted. *)
init_db(d) ==
    IF Cardinality(d.lab_tests) = 0
    THEN Raise(d, "NameError")
    ELSE Done(d, NoId)

(* @app.before_request: both branches call init_db. *)
ensure_db(d) == init_db(d)

----------------------------------------------------------------------------
(* Workers *)

Init ==
    /\ db \in {EmptyDb(c) : c \in InitialCatalogs}
    /\ wtxn = NoTxn
    /\ pc = [p \in Procs |-> "idle"]
    /\ req = [p \in Procs |-> NoReq]
    /\ loc = [p \in Procs |-> NoLoc]
    /\ resp = [p \in Procs |-> NoResp]
    /\ clock = 1

(* Flask dispatches request r to the idle worker p. *)
Request(p, r) ==
    /\ pc[p] = "idle"
    /\ pc' = [pc EXCEPT ![p] = r.op]
    /\ req' = [req EXCEPT ![p] = r]
    /\ resp' = [resp EXCEPT ![p] = NoResp]
    /\ UNCHANGED <<db, wtxn, loc, clock>>

(* The handler of worker p returns (or raises): status, and what else the
   response carries. *)
Respond(p, r) ==
    /\ pc' = [pc EXCEPT ![p] = "idle"]
    /\ req' = [req EXCEPT ![p] = NoReq]
    /\ loc' = [loc EXCEPT ![p] = NoLoc]
    /\ resp' = [resp EXCEPT ![p] = r]

Status(p, st) == [op |-> req[p].op, status |-> st]

Goto(p, label, l) ==
    /\ pc' = [pc EXCEPT ![p] = label]
    /\ loc' = [loc EXCEPT ![p] = l]
    /\ UNCHANGED <<req, resp>>

(* Time passes; datetime.utcnow() reads clock. *)
Tick ==
    /\ clock < MaxClock
    /\ clock' = clock + 1
    /\ UNCHANGED <<db, wtxn, pc, req, loc, resp>>

(* No other connection holds the write lock. *)
LockFree == wtxn = NoTxn

(* A handler that raises after get_db() without reaching conn.close() leaves
   its connection open: a write statement it ran keeps the write lock, and
   the uncommitted changes stay uncommitted, until the interpreter's
   collector finalizes the connection, which rolls the transaction back. *)
Abandoned == NumProcs + 1

Abandon == wtxn' = [owner |-> Abandoned]

connection_finalized ==
    /\ wtxn.owner = Abandoned
    /\ wtxn' = NoTxn
    /\ UNCHANGED <<db, pc, req, loc, resp, clock>>

(* The before_request hook fails: the request ends with a 500. *)
HookFails(p) ==
    /\ ensure_db(db).err # "none"
    /\ Respond(p, Status(p, ensure_db(db).err))
    /\ UNCHANGED <<db, wtxn, clock>>

----------------------------------------------------------------------------
(* Patient registry *)

(* patient_create: the six stripped form fields. *)
patient_form(r) ==
    [usn |-> field(r.usn), full_name |-> field(r.full_name), age |-> field(r.age),
     gender |-> field(r.gender), contact |-> field(r.contact),
     address |-> field(r.address)]

(* not all(data.values()), and int(age) raising ValueError *)
patient_create_valid(r) ==
    LET data == patient_form(r)
    IN  /\ \A k \in DOMAIN data : data[k] # ""
        /\ int_of_str(data.age).ok

(* POST /patient/create *)
patient_create(p) ==
    /\ pc[p] = "patient_create"
    /\ \/ HookFails(p)
       \/ /\ ensure_db(db).err = "none"
          /\ LET data == patient_form(req[p])
                 age  == IF data.age # "" THEN int_of_str(data.age)
                                          ELSE [ok |-> TRUE, n |-> 0]
                 row  == [data EXCEPT !.age = age.n]
                 ins  == insert_patient(db, row)
             IN  IF ~ patient_create_valid(req[p])
                 THEN Respond(p, Status(p, "InvalidInput")) /\ UNCHANGED <<db, wtxn, clock>>
                 ELSE /\ LockFree
                      /\ db' = ins.db
                      /\ Respond(p, Status(p, IF ins.err = "none" THEN "Ok"
                                              ELSE "DuplicateIdentifier"))
                      /\ UNCHANGED <<wtxn, clock>>

(* not all([usn, full_name, age, gender]), and int(age) raising *)
api_patients_valid(r) ==
    /\ strip(r.usn) # "" /\ strip(r.fullName) # "" /\ truthy(r.age)
    /\ strip(r.gender) # ""
    /\ int_of_json(r.age).ok

(* POST /api/patients *)
api_patients(p) ==
    /\ pc[p] = "api_patients"
    /\ \/ HookFails(p)
       \/ /\ ensure_db(db).err = "none"
          /\ LET r    == req[p]
                 usn  == strip(r.usn)
                 name == strip(r.fullName)
                 gen  == strip(r.gender)
                 age  == int_of_json(r.age)
                 row  == [usn |-> usn, full_name |-> name, age |-> age.n, gender |-> gen,
                          contact |-> strip(r.phone), address |-> strip(r.address)]
                 ins  == insert_patient(db, row)
             IN  IF ~ api_patients_valid(r)
                 THEN Respond(p, Status(p, "InvalidInput")) /\ UNCHANGED <<db, wtxn, clock>>
                 ELSE /\ LockFree
                      /\ db' = ins.db
                      /\ Respond(p, Status(p, IF ins.err = "none" THEN "Ok"
                                              ELSE "DuplicateIdentifier"))
                      /\ UNCHANGED <<wtxn, clock>>

(* POST /patient/delete/<usn> *)
patient_delete(p) ==
    /\ pc[p] = "patient_delete"
    /\ \/ HookFails(p)
       \/ /\ ensure_db(db).err = "none"
          /\ LockFree
          /\ db' = delete_patient(db, req[p].usn).db
          /\ Respond(p, Status(p, "Ok"))
          /\ UNCHANGED <<wtxn, clock>>


(* GET /?q=...: SELECT * FROM patients WHERE usn = ? OR contact = ?, of which
   fetchone() takes the first row, in an order the query leaves open. *)
index(d, q) == {pt \in d.patients : pt.usn = q \/ pt.contact = q}

----------------------------------------------------------------------------
(* Clinical observations *)

(* int(x) if x else None *)
opt_int(s) == IF s = "" THEN [ok |-> TRUE, n |-> NullInt] ELSE int_of_str(s)

(* POST /vitals/create: parsing, validation, and the patient SELECT. *)
vitals_create(p) ==
    /\ pc[p] = "vitals_create"
    /\ \/ HookFails(p)
       \/ /\ ensure_db(db).err = "none"
          /\ UNCHANGED <<db, wtxn, clock>>
          /\ LET r      == req[p]
                 usn    == field(r.usn)
                 weight == field0(r.weight)
                 height == field0(r.height)
                 sys    == field0(r.blood_pressure_systolic)
                 dia    == field0(r.blood_pressure_diastolic)
                 hr     == field0(r.heart_rate)
                 temp   == field0(r.temperature)
                 rr     == field(r.respiratory_rate)
                 o2     == field(r.oxygen_saturation)
                 num    == <<float_of_str(weight), float_of_str(height), int_of_str(sys),
                             int_of_str(dia), int_of_str(hr), float_of_str(temp),
                             opt_int(rr), opt_int(o2)>>
             IN  IF "" \in {usn, weight, height, sys, dia, hr, temp}
                 THEN Respond(p, Status(p, "InvalidInput"))
                 ELSE IF \E k \in DOMAIN num : ~ num[k].ok
                 THEN Respond(p, Status(p, "InvalidInput"))
                 ELSE IF ~ PatientExists(db, usn)
                 THEN Respond(p, Status(p, "PatientNotFound"))
                 ELSE Goto(p, "vitals_create_insert",
                           [usn |-> usn, weight |-> num[1].n, height |-> num[2].n,
                            bp_sys |-> num[3].n, bp_dia |-> num[4].n, hr |-> num[5].n,
                            temp |-> num[6].n, resp_rate |-> num[7].n,
                            o2_sat |-> num[8].n, notes |-> field(r.notes)])

(* POST /api/vitals: parsing, validation, and the patient SELECT. *)
api_vitals(p) ==
    /\ pc[p] = "api_vitals"
    /\ \/ HookFails(p)
       \/ /\ ensure_db(db).err = "none"
          /\ UNCHANGED <<db, wtxn, clock>>
          /\ LET r   == req[p]
                 usn == strip(r.usn)
                 required == {r.weight, r.height, r.bloodPressureSystolic,
                              r.bloodPressureDiastolic, r.heartRate, r.temperature}
                 opt(v) == IF truthy(v) THEN int_of_json(v)
                                        ELSE [ok |-> TRUE, n |-> NullInt]
                 num == <<float_of_json(r.weight), float_of_json(r.height),
                          int_of_json(r.bloodPressureSystolic),
                          int_of_json(r.bloodPressureDiastolic),
                          int_of_json(r.heartRate), float_of_json(r.temperature),
                          opt(r.respiratoryRate), opt(r.oxygenSaturation)>>
             IN  IF usn = "" \/ \E v \in required : ~ truthy(v)
                 THEN Respond(p, Status(p, "InvalidInput"))
                 ELSE IF \E k \in DOMAIN num : ~ num[k].ok
                 THEN Respond(p, Status(p, "InvalidInput"))
                 ELSE IF ~ PatientExists(db, usn)
                 THEN Respond(p, Status(p, "PatientNotFound"))
                 ELSE Goto(p, "vitals_create_insert",
                           [usn |-> usn, weight |-> num[1].n, height |-> num[2].n,
                            bp_sys |-> num[3].n, bp_dia |-> num[4].n, hr |-> num[5].n,
                            temp |-> num[6].n, resp_rate |-> num[7].n,
                            o2_sat |-> num[8].n, notes |-> strip(r.notes)])

(* Either handler's INSERT INTO vitals and conn.commit(). *)
vitals_create_insert(p) ==
    /\ pc[p] = "vitals_create_insert"
    /\ LockFree
    /\ db.seq["vitals"] < MaxId
    /\ LET ins == insert_vitals(db, loc[p], clock)
       IN  /\ db' = ins.db
           /\ Respond(p, Status(p, IF ins.err = "none" THEN "Ok" ELSE ins.err))
           /\ IF ins.err # "none" /\ req[p].op = "vitals_create"
              THEN Abandon ELSE UNCHANGED wtxn
           /\ UNCHANGED clock

----------------------------------------------------------------------------
(* Prescriptions and the medication catalog *)

(* POST /prescription/create: validation and the patient SELECT. *)
prescription_create(p) ==
    /\ pc[p] = "prescription_create"
    /\ \/ HookFails(p)
       \/ /\ ensure_db(db).err = "none"
          /\ UNCHANGED <<db, wtxn, clock>>
          /\ LET usn   == field(req[p].usn)
                 notes == field(req[p].notes)
             IN  IF usn = "" \/ notes = ""
                 THEN Respond(p, Status(p, "InvalidInput"))
                 ELSE IF ~ PatientExists(db, usn)
                 THEN Respond(p, Status(p, "PatientNotFound"))
                 ELSE Goto(p, "prescription_create_insert",
                           [usn |-> usn, notes |-> [text |-> notes]])

(* The note POST /api/prescriptions composes: the diagnosis, one numbered
   line per medication that has a name, a dosage and a frequency, the
   additional notes and the follow-up date. *)
prescription_notes(diagnosis, medications, notes, follow_up_date) ==
    [diagnosis |-> diagnosis,
     medications |-> {<<i, medications[i]>> : i \in
                        {j \in DOMAIN medications :
                            /\ medications[j].name # ""
                            /\ medications[j].dosage # ""
                            /\ medications[j].frequency # ""}},
     notes |-> notes, follow_up_date |-> follow_up_date]

(* POST /api/prescriptions: validation and the patient SELECT. *)
api_prescriptions(p) ==
    /\ pc[p] = "api_prescriptions"
    /\ \/ HookFails(p)
       \/ /\ ensure_db(db).err = "none"
          /\ UNCHANGED <<db, wtxn, clock>>
          /\ LET r         == req[p]
                 usn       == strip(r.usn)
                 diagnosis == strip(r.diagnosis)
             IN  IF usn = "" \/ diagnosis = ""
                 THEN Respond(p, Status(p, "InvalidInput"))
                 ELSE IF ~ PatientExists(db, usn)
                 THEN Respond(p, Status(p, "PatientNotFound"))
                 ELSE Goto(p, "prescription_create_insert",
                           [usn |-> usn,
                            notes |-> prescription_notes(diagnosis, r.medications,
                                        strip(r.notes), strip(r.followUpDate))])

(* Either handler's INSERT INTO prescriptions and conn.commit(). *)
prescription_create_insert(p) ==
    /\ pc[p] = "prescription_create_insert"
    /\ LockFree
    /\ db.seq["prescriptions"] < MaxId
    /\ LET ins == insert_prescription(db, loc[p].usn, loc[p].notes, clock)
       IN  /\ db' = ins.db
           /\ Respond(p, Status(p, IF ins.err = "none" THEN "Ok" ELSE ins.err))
           /\ IF ins.err # "none" /\ req[p].op = "prescription_create"
              THEN Abandon ELSE UNCHANGED wtxn
           /\ UNCHANGED clock

(* prescription_item_create without the catalog lookup. *)
prescription_item_create_insert_always(p) ==
    /\ pc[p] = "prescription_item_create"
    /\ \/ HookFails(p)
       \/ /\ ensure_db(db).err = "none"
          /\ UNCHANGED <<db, wtxn, clock>>
          /\ LET pid  == field(req[p].prescription_id)
                 name == field(req[p].med_name)
             IN  IF pid = "" \/ name = ""
                 THEN Respond(p, Status(p, "InvalidInput"))
                 ELSE Goto(p, "prescription_item_create_med", [med_name |-> name])

(* POST /prescription/item/create: validation, and the catalog lookup
   SELECT id FROM medications WHERE name=? (fetchone: the first of the rows
   that match, in an order SQL leaves open). *)
prescription_item_create(p) ==
    /\ pc[p] = "prescription_item_create"
    /\ \/ HookFails(p)
       \/ /\ ensure_db(db).err = "none"
          /\ UNCHANGED <<db, wtxn, clock>>
          /\ LET pid  == field(req[p].prescription_id)
                 name == field(req[p].med_name)
                 meds == {m \in db.medications : m.name = name}
             IN  IF pid = "" \/ name = ""
                 THEN Respond(p, Status(p, "InvalidInput"))
                 ELSE IF meds = {}
                 THEN Goto(p, "prescription_item_create_med", [med_name |-> name])
                 ELSE \E m \in meds :
                        Goto(p, "prescription_item_create_item", [med_id |-> m.id])

(* prescription_item_create_med on a connection in autocommit mode. *)
prescription_item_create_med_autocommit(p) ==
    /\ pc[p] = "prescription_item_create_med"
    /\ LockFree
    /\ db.seq["medications"] < MaxId
    /\ LET ins == insert_medication(db, loc[p].med_name)
       IN  /\ db' = ins.db
           /\ Goto(p, "prescription_item_create_item", [med_id |-> ins.lastrowid])
           /\ UNCHANGED <<wtxn, clock>>

(* INSERT INTO medications(name): opens the write transaction. *)
prescription_item_create_med(p) ==
    /\ pc[p] = "prescription_item_create_med"
    /\ LockFree
    /\ db.seq["medications"] < MaxId
    /\ LET ins == insert_medication(db, loc[p].med_name)
       IN  /\ wtxn' = [owner |-> p, db |-> ins.db]
           /\ Goto(p, "prescription_item_create_item", [med_id |-> ins.lastrowid])
           /\ UNCHANGED <<db, clock>>

(* The duration and prescription id conversions, INSERT INTO
   prescription_items, conn.commit(). An exception leaves the handler before
   the commit and before conn.close(). *)
prescription_item_create_item(p) ==
    /\ pc[p] = "prescription_item_create_item"
    /\ wtxn.owner \in {0, p}
    /\ LET work == IF wtxn.owner = p THEN wtxn.db ELSE db
           dur  == opt_int(field(req[p].duration_days))
           pid  == int_of_str(field(req[p].prescription_id))
           ins  == insert_prescription_item(work,
                     [prescription_id |-> pid.n, medication_id |-> loc[p].med_id,
                      dose |-> field(req[p].dose), route |-> field(req[p].route),
                      frequency |-> field(req[p].frequency),
                      duration_days |-> IF dur.ok THEN dur.n ELSE NullInt,
                      instructions |-> field_or_none(req[p].instructions)])
       IN  /\ work.seq["prescription_items"] < MaxId
           /\ UNCHANGED clock
           /\ IF ~ pid.ok
              THEN /\ Respond(p, Status(p, "ValueError"))
                   /\ IF wtxn.owner = p THEN Abandon ELSE UNCHANGED wtxn
                   /\ UNCHANGED db
              ELSE IF ins.err # "none"
              THEN Respond(p, Status(p, ins.err)) /\ Abandon /\ UNCHANGED db
              ELSE db' = ins.db /\ wtxn' = NoTxn /\ Respond(p, Status(p, "Ok"))

----------------------------------------------------------------------------
(* Appointments *)

(* POST /api/appointments: validation and the patient SELECT. *)
api_appointments_create(p) ==
    /\ pc[p] = "api_appointments_create"
    /\ \/ HookFails(p)
       \/ /\ ensure_db(db).err = "none"
          /\ UNCHANGED <<db, wtxn, clock>>
          /\ LET r   == req[p]
                 usn == field(r.usn)
                 st  == field(r.starts_at)
                 en  == field(r.ends_at)
             IN  IF usn = "" \/ st = "" \/ en = ""
                 THEN Respond(p, Status(p, "InvalidInput"))
                 ELSE IF ~ PatientExists(db, usn)
                 THEN Respond(p, Status(p, "PatientNotFound"))
                 ELSE Goto(p, "api_appointments_create_insert",
                           [usn |-> usn, starts_at |-> st, ends_at |-> en,
                            title |-> field_or_none(r.title),
                            clinician |-> field_or_none(r.clinician),
                            notes |-> field_or_none(r.notes)])

(* INSERT INTO appointments, conn.commit() *)
api_appointments_create_insert(p) ==
    /\ pc[p] = "api_appointments_create_insert"
    /\ LockFree
    /\ db.seq["appointments"] < MaxId
    /\ LET ins == insert_appointment(db, loc[p])
       IN  /\ db' = ins.db
           /\ Respond(p, IF ins.err = "none"
                         THEN [op |-> req[p].op, status |-> "Ok", id |-> ins.lastrowid]
                         ELSE Status(p, ins.err))
           /\ IF ins.err # "none" THEN Abandon ELSE UNCHANGED wtxn
           /\ UNCHANGED clock

----------------------------------------------------------------------------
(* Lab order workflow *)

(* select_active_test without AND is_active=1. *)
select_any_test(d, code) == {t \in d.lab_tests : t.code = code}

(* SELECT id FROM lab_tests WHERE code=? AND is_active=1 (code is UNIQUE) *)
select_active_test(d, code) == {t \in d.lab_tests : t.code = code /\ t.is_active = 1}

(* POST /api/lab-orders: validation and the two SELECTs. *)
api_create_lab_order(p) ==
    /\ pc[p] = "api_create_lab_order"
    /\ \/ HookFails(p)
       \/ /\ ensure_db(db).err = "none"
          /\ UNCHANGED <<db, wtxn, clock>>
          /\ LET usn   == field(req[p].usn)
                 code  == field(req[p].test_code)
                 tests == select_active_test(db, code)
             IN  IF usn = "" \/ code = ""
                 THEN Respond(p, Status(p, "InvalidInput"))
                 ELSE IF ~ PatientExists(db, usn)
                 THEN Respond(p, Status(p, "PatientNotFound"))
                 ELSE IF tests = {}
                 THEN Respond(p, Status(p, "TestNotFound"))
                 ELSE \E t \in tests :
                        Goto(p, "api_create_lab_order_order",
                             [usn |-> usn, test_id |-> t.id,
                              notes |-> field_or_none(req[p].notes)])

(* INSERT INTO lab_orders: opens the write transaction. *)
api_create_lab_order_order(p) ==
    /\ pc[p] = "api_create_lab_order_order"
    /\ LockFree
    /\ db.seq["lab_orders"] < MaxId
    /\ LET ins == insert_lab_order(db, loc[p].usn, clock, loc[p].notes)
       IN  IF ins.err # "none"
           THEN Respond(p, Status(p, ins.err)) /\ Abandon /\ UNCHANGED <<db, clock>>
           ELSE /\ wtxn' = [owner |-> p, db |-> ins.db]
                /\ Goto(p, "api_create_lab_order_item",
                        [order_id |-> ins.lastrowid, test_id |-> loc[p].test_id])
                /\ UNCHANGED <<db, clock>>

(* INSERT INTO lab_order_items, conn.commit() *)
api_create_lab_order_item(p) ==
    /\ pc[p] = "api_create_lab_order_item"
    /\ wtxn.owner = p
    /\ LET ins == insert_lab_order_item(wtxn.db, loc[p].order_id, loc[p].test_id)
       IN  /\ IF ins.err # "none"
              THEN Respond(p, Status(p, ins.err)) /\ Abandon /\ UNCHANGED <<db, clock>>
              ELSE /\ db' = ins.db
                   /\ wtxn' = NoTxn
                   /\ Respond(p, [op |-> req[p].op, status |-> "Ok",
                                  id |-> loc[p].order_id])
                   /\ UNCHANGED clock

(* api_set_lab_result committing after its first UPDATE. *)
api_set_lab_result_autocommit(p) ==
    /\ pc[p] = "api_set_lab_result"
    /\ \/ HookFails(p)
       \/ /\ ensure_db(db).err = "none"
          /\ LockFree
          /\ LET upd == update_item_result(db, req[p].item_id, field(req[p].result_value),
                                        field_or_none(req[p].result_notes), clock)
             IN  /\ db' = upd.db
                 /\ wtxn' = [owner |-> p, db |-> upd.db]
                 /\ Goto(p, "api_set_lab_result_order", [item_id |-> req[p].item_id])
                 /\ UNCHANGED clock

(* POST /api/lab-results/<item_id>: the first UPDATE opens the write
   transaction. *)
api_set_lab_result(p) ==
    /\ pc[p] = "api_set_lab_result"
    /\ \/ HookFails(p)
       \/ /\ ensure_db(db).err = "none"
          /\ LockFree
          /\ LET upd == update_item_result(db, req[p].item_id, field(req[p].result_value),
                                        field_or_none(req[p].result_notes), clock)
             IN  /\ wtxn' = [owner |-> p, db |-> upd.db]
                 /\ Goto(p, "api_set_lab_result_order", [item_id |-> req[p].item_id])
                 /\ UNCHANGED <<db, clock>>

(* The second UPDATE, conn.commit() *)
api_set_lab_result_order(p) ==
    /\ pc[p] = "api_set_lab_result_order"
    /\ wtxn.owner = p
    /\ db' = update_order_status(wtxn.db, loc[p].item_id).db
    /\ wtxn' = NoTxn
    /\ Respond(p, Status(p, "Ok"))
    /\ UNCHANGED clock

(* One row of GET /api/lab-orders: lab_orders JOIN lab_order_items JOIN
   lab_tests. *)
lab_order_rows(d, usn) ==
    { [id |-> o.id, usn |-> o.usn, order_status |-> o.status, item_id |-> i.id,
       code |-> t.code, status |-> i.status, result_value |-> i.result_value,
       result_at |-> i.result_at] :
      <<o, i, t>> \in { x \in d.lab_orders \X d.lab_order_items \X d.lab_tests :
                         /\ x[2].lab_order_id = x[1].id
                         /\ x[3].id = x[2].lab_test_id
                         /\ (usn = "" \/ x[1].usn = usn) } }

(* GET /api/lab-orders *)
api_list_lab_orders(p) ==
    /\ pc[p] = "api_list_lab_orders"
    /\ \/ HookFails(p)
       \/ /\ ensure_db(db).err = "none"
          /\ Respond(p, [op |-> req[p].op, status |-> "Ok",
                         rows |-> lab_order_rows(db, field(req[p].usn))])
          /\ UNCHANGED <<db, wtxn, clock>>

(* sqlite3.OperationalError("database is locked"): the statement worker p
   runs next needs the write lock, another connection holds it, and the busy
   timeout of sqlite3.connect (5 s) runs out. *)
NextIsWrite(p) ==
    \/ pc[p] \in {"api_create_lab_order_order", "vitals_create_insert",
                  "prescription_create_insert", "prescription_item_create_med",
                  "prescription_item_create_item", "api_appointments_create_insert"}
    \/ /\ pc[p] \in {"patient_delete", "api_set_lab_result"}
       /\ ensure_db(db).err = "none"
    \/ /\ pc[p] = "patient_create"
       /\ ensure_db(db).err = "none"
       /\ patient_create_valid(req[p])
    \/ /\ pc[p] = "api_patients"
       /\ ensure_db(db).err = "none"
       /\ api_patients_valid(req[p])

database_is_locked(p) ==
    /\ NextIsWrite(p)
    /\ wtxn.owner \notin {0, p}
    /\ Respond(p, Status(p, "OperationalError"))
    /\ UNCHANGED <<db, wtxn, clock>>


----------------------------------------------------------------------------
(* Requests *)

Usns == {"P1", "P2"}

PatientForm(usn, name, age, contact) ==
    [op |-> "patient_create", usn |-> usn, full_name |-> name, age |-> age,
     gender |-> "F", contact |-> contact, address |-> "Ward 1"]

PatientJson(usn, name, age, contact) ==
    [op |-> "api_patients", usn |-> usn, fullName |-> name, age |-> age,
     gender |-> "F", phone |-> contact, address |-> "Ward 1"]

DeleteRequest(usn) == [op |-> "patient_delete", usn |-> usn]

VitalsForm(usn) ==
    [op |-> "vitals_create", usn |-> usn, weight |-> "70", height |-> "175",
     blood_pressure_systolic |-> "120", blood_pressure_diastolic |-> "80",
     heart_rate |-> "72", temperature |-> "37", respiratory_rate |-> NULL,
     oxygen_saturation |-> NULL, notes |-> NULL]

VitalsJson(usn) ==
    [op |-> "api_vitals", usn |-> usn, weight |-> JInt(70), height |-> JStr("175"),
     bloodPressureSystolic |-> JInt(120), bloodPressureDiastolic |-> JInt(80),
     heartRate |-> JInt(72), temperature |-> JInt(37), respiratoryRate |-> JNull,
     oxygenSaturation |-> JNull, notes |-> ""]

PrescriptionForm(usn) == [op |-> "prescription_create", usn |-> usn, notes |-> "rest"]

PrescriptionJson(usn) ==
    [op |-> "api_prescriptions", usn |-> usn, diagnosis |-> "flu",
     medications |-> << [name |-> "Amox", dosage |-> "500mg", frequency |-> "bd",
                         duration |-> "", instructions |-> ""] >>,
     notes |-> "", followUpDate |-> ""]

PrescriptionItemForm(pid, med) ==
    [op |-> "prescription_item_create", prescription_id |-> pid, med_name |-> med,
     dose |-> "500mg", route |-> NULL, frequency |-> "bd", duration_days |-> "7",
     instructions |-> NULL]

AppointmentJson(usn, st, en) ==
    [op |-> "api_appointments_create", usn |-> usn, starts_at |-> st, ends_at |-> en,
     title |-> "review", clinician |-> NULL, notes |-> NULL]

LabOrderJson(usn, code, notes) ==
    [op |-> "api_create_lab_order", usn |-> usn, test_code |-> code, notes |-> notes]

LabResultJson(item, value, notes) ==
    [op |-> "api_set_lab_result", item_id |-> item, result_value |-> value,
     result_notes |-> notes]

LabListRequest(usn) == [op |-> "api_list_lab_orders", usn |-> usn]

----------------------------------------------------------------------------
(* The lab order workflow: registration, deletion, orders, results, listing;
   one worker serving one request after the other. *)

LabRequests ==
    {PatientForm(u, "Ann", "30", "555") : u \in Usns}
        \cup {DeleteRequest(u) : u \in Usns}
        \cup {LabOrderJson(u, c, NULL) : u \in {"P1", " P1 ", "P2", NULL},
                                         c \in {"CBC", "GLU", "XRAY", NULL}}
        \cup {LabOrderJson("P2", "LFT", "fasting")}
        \cup {LabResultJson(i, "5.4", NULL) : i \in 1..MaxId}
        \cup {LabResultJson(i, NULL, "repeat") : i \in 1..MaxId}
        \cup {LabListRequest(u) : u \in {"P1", NULL}}

LabStep(p, R) ==
    \/ \E r \in R : Request(p, r)
    \/ patient_create(p)
    \/ patient_delete(p)
    \/ api_create_lab_order(p)
    \/ api_create_lab_order_order(p)
    \/ api_create_lab_order_item(p)
    \/ api_set_lab_result(p)
    \/ api_set_lab_result_order(p)
    \/ api_list_lab_orders(p)

NextLab == LabStep(1, LabRequests) \/ Tick

SpecLab == Init /\ [][NextLab]_vars

(* The same workflow served by concurrent workers. *)

LabConcRequests ==
    { PatientForm("P1", "Ann", "30", "555"), DeleteRequest("P1"),
      LabOrderJson("P1", "CBC", NULL), LabListRequest(NULL) }
        \cup {LabResultJson(i, "5.4", NULL) : i \in 1..MaxId}

NextLabConc ==
    \/ \E p \in Procs : LabStep(p, LabConcRequests) \/ database_is_locked(p)
    \/ Tick
    \/ connection_finalized

SpecLabConc == Init /\ [][NextLabConc]_vars

----------------------------------------------------------------------------
(* Every kind of dependent record, and patient deletion; one worker. *)

CascadeRequests ==
    { PatientForm("P1", "Ann", "30", "555"), DeleteRequest("P1"), VitalsForm("P1"),
      PrescriptionForm("P1"), AppointmentJson("P1", "09:00", "09:30"),
      LabOrderJson("P1", "CBC", NULL), PrescriptionItemForm("1", "Amox"),
      PatientForm("P2", "Bob", "30", "556"), DeleteRequest("P2"), VitalsForm("P2"),
      LabOrderJson("P2", "LFT", NULL) }

CascadeStep(p, R) ==
    \/ \E r \in R : Request(p, r)
    \/ patient_create(p)
    \/ patient_delete(p)
    \/ vitals_create(p)
    \/ vitals_create_insert(p)
    \/ prescription_create(p)
    \/ prescription_create_insert(p)
    \/ prescription_item_create(p)
    \/ prescription_item_create_med(p)
    \/ prescription_item_create_item(p)
    \/ api_appointments_create(p)
    \/ api_appointments_create_insert(p)
    \/ api_create_lab_order(p)
    \/ api_create_lab_order_order(p)
    \/ api_create_lab_order_item(p)

NextCascade == CascadeStep(1, CascadeRequests) \/ connection_finalized

SpecCascade == Init /\ [][NextCascade]_vars


----------------------------------------------------------------------------
(* Patient deletion racing the handlers that check the patient and then
   insert a dependent record: worker 1 serves the registry's requests while
   worker 2 serves the clinic's. *)

RegistrarRequests == {PatientForm("P1", "Ann", "30", "555"), DeleteRequest("P1")}

ClinicRequests ==
    { VitalsForm("P1"), VitalsJson("P1"), PrescriptionForm("P1"), PrescriptionJson("P1"),
      AppointmentJson("P1", "09:00", "09:30"), LabOrderJson("P1", "CBC", NULL) }

NextRace ==
    \/ \E r \in RegistrarRequests : Request(1, r)
    \/ \E r \in ClinicRequests : Request(2, r)
    \/ \E p \in Procs :
        \/ patient_create(p)
        \/ patient_delete(p)
        \/ vitals_create(p)
        \/ api_vitals(p)
        \/ vitals_create_insert(p)
        \/ prescription_create(p)
        \/ api_prescriptions(p)
        \/ prescription_create_insert(p)
        \/ api_appointments_create(p)
        \/ api_appointments_create_insert(p)
        \/ api_create_lab_order(p)
        \/ api_create_lab_order_order(p)
        \/ api_create_lab_order_item(p)
        \/ database_is_locked(p)
    \/ connection_finalized

SpecRace == Init /\ [][NextRace]_vars

----------------------------------------------------------------------------
(* The patient registry: both creation paths and deletion; concurrent
   workers. *)

RegistryRequests ==
    { PatientForm("P1", "Ann", "30", "555"), PatientForm("P1", "Bob", "0", "556"),
      PatientForm(" P1 ", "Ann", "x", "555"), PatientForm("P2", "Bob", "30", NULL),
      PatientJson("P1", "Ann", JInt(30), "P2"), PatientJson("P2", "Bob", JInt(0), "556"),
      PatientJson("P2", "Bob", JStr("0"), "556"), PatientJson("P2", "Ann", JNull, "555"),
      DeleteRequest("P1"), DeleteRequest("P2") }

NextRegistry ==
    \E p \in Procs :
        \/ \E r \in RegistryRequests : Request(p, r)
        \/ patient_create(p)
        \/ api_patients(p)
        \/ patient_delete(p)

SpecRegistry == Init /\ [][NextRegistry]_vars


----------------------------------------------------------------------------
(* Properties *)

(* Worker p takes the step that ends its request. *)
Completes(p) == pc[p] # "idle" /\ pc'[p] = "idle"

(* Worker p takes the first step of handler h: the one that runs the
   before_request hook. *)
Enters(p, h) == pc[p] = h /\ pc'[p] # h

ItemsOf(d, o) == {i \in d.lab_order_items : i.lab_order_id = o.id}

AllCompleted(items) == \A i \in items : i.status = "Completed"

(* C1: in every state reached through CreateLabOrder, RecordLabResult and
   DeletePatient, a lab order's status is "Completed" if and only if every
   lab order item of that order has status "Completed". *)
C1_CompletedIffAllItemsCompleted ==
    \A o \in db.lab_orders : (o.status = "Completed") <=> AllCompleted(ItemsOf(db, o))

C1_Witness ==
    \E o1, o2 \in db.lab_orders :
        /\ o1.status = "Completed" /\ ItemsOf(db, o1) # {} /\ AllCompleted(ItemsOf(db, o1))
        /\ o2.status = "Ordered" /\ \E i \in ItemsOf(db, o2) : i.status = "Ordered"

(* The first action of every handler: it runs after the before_request hook. *)
HandlerNames ==
    {"patient_create", "api_patients", "patient_delete", "vitals_create", "api_vitals",
     "prescription_create", "api_prescriptions", "prescription_item_create",
     "api_appointments_create", "api_create_lab_order", "api_set_lab_result",
     "api_list_lab_orders"}

(* C2: init_db seeds the catalog exactly when it is empty: a request whose
   before_request hook finds lab_tests empty leaves CBC, GLU and LFT in it,
   all active; one that finds it non-empty leaves the catalog as it was. *)
C2_SeedsExactlyWhenEmpty ==
    [][\A p \in Procs : \A h \in HandlerNames :
          Enters(p, h) =>
            IF db.lab_tests = {}
            THEN db'.lab_tests = StarterTests
            ELSE db'.lab_tests = db.lab_tests]_vars

(* C3: a lab order item only moves from "Ordered" to "Completed": an item
   that is "Completed" is "Completed" for as long as it exists, and
   RecordLabResult on a completed item replaces its result value, notes and
   timestamp and leaves the item and its order "Completed". *)
C3_ItemStaysCompleted ==
    [][/\ \A i \in db.lab_order_items : \A j \in db'.lab_order_items :
             (j.id = i.id /\ i.status = "Completed") => j.status = "Completed"
       /\ \A p \in Procs :
            (pc[p] = "api_set_lab_result_order" /\ Completes(p)) =>
              \A i \in db.lab_order_items :
                (i.id = loc[p].item_id /\ i.status = "Completed") =>
                  \E j \in db'.lab_order_items :
                    /\ j.id = i.id
                    /\ j.lab_order_id = i.lab_order_id /\ j.lab_test_id = i.lab_test_id
                    /\ j.status = "Completed"
                    /\ j.result_value = field(req[p].result_value)
                    /\ j.result_notes = field_or_none(req[p].result_notes)
                    /\ j.result_at >= i.result_at /\ j.result_at <= clock
                    /\ \E o \in db'.lab_orders :
                          o.id = j.lab_order_id /\ o.status = "Completed"]_vars

(* The second UPDATE of a RecordLabResult is about to run on an item that
   was completed before, with another value and at a later time. *)
C3_Witness ==
    /\ pc[1] = "api_set_lab_result_order"
    /\ \E i \in db.lab_order_items : \E j \in wtxn.db.lab_order_items :
          /\ i.id = loc[1].item_id /\ j.id = i.id
          /\ i.status = "Completed" /\ j.status = "Completed"
          /\ j.result_value # i.result_value
          /\ j.result_notes # i.result_notes
          /\ j.result_at > i.result_at

(* C4: a successful CreateLabOrder(patientId, testCode, notes) adds exactly
   one lab order, for that patient, and exactly one lab order item, which
   belongs to the new order and references the active test with that code;
   both have status "Ordered"; no other order or item is added or changed. *)
C4_CreateLabOrderAddsOneOrderOneItem ==
    [][\A p \in Procs :
          (pc[p] = "api_create_lab_order_item" /\ Completes(p)
              /\ resp'[p].status = "Ok") =>
            \E o \in db'.lab_orders : \E i \in db'.lab_order_items :
                /\ o \notin db.lab_orders /\ i \notin db.lab_order_items
                /\ \A x \in db.lab_orders : x.id # o.id
                /\ \A x \in db.lab_order_items : x.id # i.id
                /\ db'.lab_orders = db.lab_orders \cup {o}
                /\ db'.lab_order_items = db.lab_order_items \cup {i}
                /\ o.id = resp'[p].id
                /\ o.usn = field(req[p].usn)
                /\ o.notes = field_or_none(req[p].notes)
                /\ o.status = "Ordered"
                /\ i.lab_order_id = o.id
                /\ i.status = "Ordered"
                /\ i.result_value = NULL /\ i.result_notes = NULL
                /\ \E t \in db.lab_tests :
                      /\ t.id = i.lab_test_id
                      /\ t.code = field(req[p].test_code)
                      /\ t.is_active = 1]_vars

C4_Witness ==
    /\ resp[1].op = "api_create_lab_order" /\ resp[1].status = "Ok"
    /\ \E o \in db.lab_orders :
          /\ o.id = resp[1].id /\ o.status = "Ordered" /\ o.notes = "fasting"
          /\ \E i \in ItemsOf(db, o) : i.status = "Ordered"
    /\ Cardinality(db.lab_orders) = 2


ActiveTests(d, code) == {t \in d.lab_tests : t.code = code /\ t.is_active = 1}

(* C5, as claimed: a CreateLabOrder that reaches its handler fails with
   PatientNotFound when the patient does not exist, and with TestNotFound
   when the patient exists and no active lab test has the code; either way
   the store is unchanged. *)
C5_NotFoundWheneverMissing ==
    [][\A p \in Procs :
          (Enters(p, "api_create_lab_order") /\ ensure_db(db).err = "none") =>
            LET usn  == field(req[p].usn)
                code == field(req[p].test_code)
            IN  /\ ~ PatientExists(db, usn) =>
                     (Completes(p) /\ resp'[p].status = "PatientNotFound" /\ db' = db)
                /\ (PatientExists(db, usn) /\ ActiveTests(db, code) = {}) =>
                     (Completes(p) /\ resp'[p].status = "TestNotFound" /\ db' = db)]_vars

(* C5, amended: CreateLabOrder fails with InvalidInput when the usn or the
   test code is empty after trimming; otherwise with PatientNotFound when
   the patient does not exist; otherwise with TestNotFound when no active
   lab test has the code; in each case, and when the request fails in the
   before_request hook, the store is unchanged; otherwise it goes on to its
   inserts. *)
C5_FailuresOfCreateLabOrder ==
    [][\A p \in Procs :
          Enters(p, "api_create_lab_order") =>
            LET usn  == field(req[p].usn)
                code == field(req[p].test_code)
                Fails(st) == /\ Completes(p) /\ resp'[p].status = st
                             /\ db' = db /\ wtxn' = wtxn
            IN  IF db.lab_tests = {} THEN Fails("NameError")
                ELSE IF usn = "" \/ code = "" THEN Fails("InvalidInput")
                ELSE IF ~ PatientExists(db, usn) THEN Fails("PatientNotFound")
                ELSE IF ActiveTests(db, code) = {} THEN Fails("TestNotFound")
                ELSE ~ Completes(p)]_vars

(* The patient exists, the test's code is in the catalog, inactive. *)
C5_Witness ==
    /\ resp[1].op = "api_create_lab_order" /\ resp[1].status = "TestNotFound"
    /\ db.patients # {}
    /\ db.lab_orders = {}

(* C6: RecordLabResult applies the item update and the recomputation of the
   order's status as one atomic step: under any interleaving with readers
   and other RecordLabResult calls, the committed store never holds, and no
   reader is ever shown, an order whose items are all "Completed" while the
   order is not. *)
C6_NoStaleOrderCommitted ==
    /\ \A o \in db.lab_orders : AllCompleted(ItemsOf(db, o)) => o.status = "Completed"
    /\ \A p \in Procs :
         (resp[p].op = "api_list_lab_orders" /\ resp[p].status = "Ok") =>
           \A r \in resp[p].rows :
             (\A r2 \in resp[p].rows : r2.id = r.id => r2.status = "Completed")
                => r.order_status = "Completed"

(* A RecordLabResult is between its two UPDATEs (the item is completed and
   the order is not, in its transaction only) while another worker lists
   the orders or records a result. *)
C6_Witness ==
    \E p, q \in Procs :
        /\ p # q
        /\ pc[p] = "api_set_lab_result_order" /\ wtxn.owner = p
        /\ \E o \in wtxn.db.lab_orders :
              /\ o.status = "Ordered"
              /\ ItemsOf(wtxn.db, o) # {} /\ AllCompleted(ItemsOf(wtxn.db, o))
        /\ pc[q] \in {"api_list_lab_orders", "api_set_lab_result"}

(* The rows of table t that belong to patient u, directly or through their
   prescription or lab order. *)
Owned(d, t, u) ==
    CASE t = "prescription_items" ->
            {i \in d.prescription_items :
                \E r \in d.prescriptions : r.id = i.prescription_id /\ r.usn = u}
      [] t = "lab_order_items" ->
            {i \in d.lab_order_items :
                \E r \in d.lab_orders : r.id = i.lab_order_id /\ r.usn = u}
      [] OTHER -> {r \in d[t] : r.usn = u}

DependentTables ==
    {"vitals", "prescriptions", "prescription_items", "appointments", "encounters",
     "problems", "allergies", "lab_orders", "lab_order_items"}

(* C7: after DeletePatient(P) no vitals record, prescription, prescription
   item, appointment, encounter, problem, allergy, lab order or lab order
   item of P remains, while the records of every other patient and the
   medication and lab test catalogs are unchanged. *)
C7_DeleteCascades ==
    [][\A p \in Procs :
          (pc[p] = "patient_delete" /\ Completes(p) /\ resp'[p].status = "Ok") =>
            LET u == req[p].usn
            IN  /\ db'.patients = {pt \in db.patients : pt.usn # u}
                /\ \A t \in DependentTables :
                      /\ db'[t] \cap Owned(db, t, u) = {}
                      /\ db'[t] = db[t] \ Owned(db, t, u)
                /\ db'.medications = db.medications
                /\ db'.lab_tests = db.lab_tests]_vars

(* P1 has been deleted after a record of every kind the handlers create
   was made and removed, and P2's records are still there. *)
C7_Witness ==
    /\ resp[1].op = "patient_delete" /\ resp[1].status = "Ok"
    /\ ~ PatientExists(db, "P1") /\ PatientExists(db, "P2")
    /\ \A t \in {"vitals", "prescriptions", "prescription_items", "appointments",
                 "lab_orders", "lab_order_items"} :
          db.seq[t] > Cardinality(db[t]) /\ Owned(db, t, "P1") = {}
    /\ Owned(db, "vitals", "P2") # {} /\ Owned(db, "lab_order_items", "P2") # {}
    /\ db.medications # {}

(* C8: in every committed state, however DeletePatient interleaves with
   RecordVitals, CreatePrescription, CreateAppointment and CreateLabOrder
   for the same patient, every vitals record, prescription, appointment and
   lab order references a patient that exists. *)
C8_DependentsReferenceExistingPatient ==
    \A t \in {"vitals", "prescriptions", "appointments", "lab_orders"} :
        \A r \in db[t] : PatientExists(db, r.usn)

(* A delete landed between a handler's existence check and its insert, and
   the insert was refused; records created before are gone with the
   patient. *)
C8_Witness ==
    /\ resp[2].op # "none" /\ resp[2].status = "IntegrityError"
    /\ ~ PatientExists(db, "P1")
    /\ db.seq["vitals"] > 0 /\ db.seq["lab_orders"] > 0

CreateOps == {"patient_create", "api_patients"}

(* The identifier and the record a creation request submits, after the
   handler's trimming and conversion. *)
SubmittedUsn(r) == IF r.op = "patient_create" THEN field(r.usn) ELSE strip(r.usn)

SubmittedAge(r) ==
    IF r.op = "patient_create" THEN int_of_str(field(r.age)) ELSE int_of_json(r.age)

SubmittedRecord(r) ==
    IF r.op = "patient_create"
    THEN [usn |-> field(r.usn), full_name |-> field(r.full_name),
          age |-> SubmittedAge(r).n, gender |-> field(r.gender),
          contact |-> field(r.contact), address |-> field(r.address)]
    ELSE [usn |-> strip(r.usn), full_name |-> strip(r.fullName),
          age |-> SubmittedAge(r).n, gender |-> strip(r.gender),
          contact |-> strip(r.phone), address |-> strip(r.address)]

(* The request passes the validation of its handler. *)
Accepted(r) ==
    IF r.op = "patient_create" THEN patient_create_valid(r) ELSE api_patients_valid(r)

(* C9: a CreatePatient (that passes validation) with an identifier that
   already exists fails with DuplicateIdentifier and leaves the patients
   unchanged; a CreatePatient succeeds only when no patient has the
   identifier, and adds one; so of two concurrent calls with the same
   identifier exactly one succeeds, and at no time do two patients share an
   identifier. *)
C9_DuplicateIdentifierRefused ==
    /\ [](\A a, b \in db.patients : a.usn = b.usn => a = b)
    /\ [][\A p \in Procs :
            (pc[p] \in CreateOps /\ Completes(p) /\ Accepted(req[p])
                /\ ensure_db(db).err = "none") =>
              LET u == SubmittedUsn(req[p])
              IN  IF PatientExists(db, u)
                  THEN resp'[p].status = "DuplicateIdentifier" /\ db' = db
                  ELSE /\ resp'[p].status = "Ok"
                       /\ db'.patients = db.patients \cup {SubmittedRecord(req[p])}]_vars

(* Worker 1 has created the patient while worker 2's creation of the same
   identifier, with other data, is in flight. *)
C9_Witness ==
    /\ resp[1].op \in CreateOps /\ resp[1].status = "Ok"
    /\ pc[2] \in CreateOps /\ Accepted(req[2])
    /\ PatientExists(db, SubmittedUsn(req[2]))
    /\ SubmittedRecord(req[2]) \notin db.patients

(* A valid patient record: every text field non-empty, the age a
   non-negative integer. *)
ValidPatient(r) ==
    LET rec == SubmittedRecord(r)
    IN  /\ \A k \in DOMAIN rec \ {"age"} : rec[k] # ""
        /\ SubmittedAge(r).ok /\ rec.age >= 0
        /\ IF r.op = "patient_create" THEN field(r.age) # "" ELSE r.age.t # "null"

(* C10: for every valid patient record whose identifier is not in use,
   CreatePatient succeeds on both creation paths, and a GetPatient by that
   identifier then returns a record equal to the input in all fields. *)
C10_CreateThenGetRoundTrip ==
    [][\A p \in Procs :
          (pc[p] \in CreateOps /\ Completes(p) /\ ensure_db(db).err = "none"
              /\ ValidPatient(req[p]) /\ ~ PatientExists(db, SubmittedUsn(req[p]))) =>
            /\ resp'[p].status = "Ok"
            /\ index(db', SubmittedUsn(req[p])) = {SubmittedRecord(req[p])}]_vars

----------------------------------------------------------------------------
(* Patient records: creation on both paths, update, deletion; one worker. *)

(* UPDATE patients SET full_name=?, age=?, gender=?, contact=?, address=?
   WHERE usn=? : no row matches an identifier that is not there. *)
update_patient(d, row) ==
    Done([d EXCEPT !.patients = {IF pt.usn = row.usn THEN row ELSE pt : pt \in @}], NoId)

(* not (usn and full_name and contact and address and gender and age_raw),
   and int(age_raw) raising ValueError *)
patient_update_valid(r) ==
    LET data == patient_form(r)
    IN  /\ \A k \in DOMAIN data : data[k] # ""
        /\ int_of_str(data.age).ok

(* POST /patient/update *)
patient_update(p) ==
    /\ pc[p] = "patient_update"
    /\ \/ HookFails(p)
       \/ /\ ensure_db(db).err = "none"
          /\ LET data == patient_form(req[p])
                 row  == [data EXCEPT !.age = int_of_str(data.age).n]
             IN  IF ~ patient_update_valid(req[p])
                 THEN Respond(p, Status(p, "InvalidInput")) /\ UNCHANGED <<db, wtxn, clock>>
                 ELSE /\ LockFree
                      /\ db' = update_patient(db, row).db
                      /\ Respond(p, Status(p, "Ok"))
                      /\ UNCHANGED <<wtxn, clock>>

UpdateForm(usn, name, age, contact) ==
    [op |-> "patient_update", usn |-> usn, full_name |-> name, age |-> age,
     gender |-> "F", contact |-> contact, address |-> "Ward 1"]

PatientRequests ==
    { PatientForm("P1", "Ann", "30", "555"), PatientForm("P2", "Bob", "-5", "556"),
      PatientForm("P2", NULL, "30", "556"), PatientForm("P2", "Bob", "x", "556"),
      PatientJson("P2", "Bob", JInt(30), ""), PatientJson("P2", "Bob", JInt(0 - 5), "556"),
      PatientJson("P2", "", JInt(30), "556"), PatientJson("P2", "Bob", JInt(7), "556"),
      UpdateForm("P1", "Ann", "7", "557"), UpdateForm("P1", "Ann", "-5", "555"),
      UpdateForm("P1", "Ann", "30", "  "), UpdateForm("P1", "Ann", "x", "555"),
      UpdateForm("P2", "Eve", "30", "558"),
      DeleteRequest("P1"), DeleteRequest("P2") }

NextPatients ==
    \/ \E r \in PatientRequests : Request(1, r)
    \/ patient_create(1)
    \/ api_patients(1)
    \/ patient_update(1)
    \/ patient_delete(1)

SpecPatients == Init /\ [][NextPatients]_vars

WriteOps == {"patient_create", "api_patients", "patient_update"}

(* The record a creation or update request submits. *)
WrittenRecord(r) ==
    IF r.op = "api_patients" THEN SubmittedRecord(r)
    ELSE SubmittedRecord([r EXCEPT !.op = "patient_create"])

(* Some required field is empty, or the age is not a non-negative integer. *)
InvalidPatient(r) ==
    LET rec == WrittenRecord(r)
        age == IF r.op = "api_patients" THEN int_of_json(r.age) ELSE int_of_str(field(r.age))
    IN  \/ \E k \in DOMAIN rec \ {"age"} : rec[k] = ""
        \/ ~ age.ok
        \/ age.n < 0

(* C11: CreatePatient and UpdatePatient fail with InvalidInput, writing
   nothing, whenever identifier, name, age, gender, contact or address is
   empty or the age is not a non-negative integer; so every patient in every
   reachable state has a non-negative age and a non-empty name, gender,
   contact and address. *)
C11_InvalidPatientRefused ==
    /\ [](\A pt \in db.patients :
            pt.age >= 0 /\ "" \notin {pt.full_name, pt.gender, pt.contact, pt.address})
    /\ [][\A p \in Procs :
            (pc[p] \in WriteOps /\ Completes(p) /\ ensure_db(db).err = "none"
                /\ InvalidPatient(req[p])) =>
              (resp'[p].status = "InvalidInput" /\ db' = db)]_vars

----------------------------------------------------------------------------
(* Vitals history: both recording paths, the legacy form, and the patient
   routes; one worker. *)

(* POST /vitals/create/legacy: validation, the patient SELECT, and an INSERT
   naming the columns blood_pressure and pulse, which the vitals table does
   not have: sqlite3.OperationalError when the statement is prepared. *)
vitals_create_legacy(p) ==
    /\ pc[p] = "vitals_create_legacy"
    /\ \/ HookFails(p)
       \/ /\ ensure_db(db).err = "none"
          /\ UNCHANGED <<db, wtxn, clock>>
          /\ LET r   == req[p]
                 usn == field(r.usn)
                 num == <<int_of_str(field0(r.pulse)), float_of_str(field0(r.temperature)),
                          float_of_str(field0(r.weight)), float_of_str(field0(r.height))>>
             IN  IF usn = "" \/ field(r.blood_pressure) = ""
                 THEN Respond(p, Status(p, "InvalidInput"))
                 ELSE IF \E k \in DOMAIN num : ~ num[k].ok
                 THEN Respond(p, Status(p, "InvalidInput"))
                 ELSE IF ~ PatientExists(db, usn)
                 THEN Respond(p, Status(p, "PatientNotFound"))
                 ELSE Respond(p, Status(p, "OperationalError"))

(* GET /api/vitals?usn= : SELECT * FROM vitals WHERE usn=? *)
api_vitals_get(d, usn) == {v \in d.vitals : v.usn = usn}

LegacyForm(usn) ==
    [op |-> "vitals_create_legacy", usn |-> usn, blood_pressure |-> "120/80",
     pulse |-> "72", temperature |-> "37", weight |-> "70", height |-> "175"]

VitalsRequests ==
    { PatientForm("P1", "Ann", "30", "555"), UpdateForm("P1", "Ann", "7", "557"),
      DeleteRequest("P1"), PatientForm("P2", "Bob", "30", "556"),
      VitalsForm("P1"), VitalsForm("P2"), VitalsForm("P3"),
      [VitalsForm("P1") EXCEPT !.weight = NULL],
      [VitalsForm("P1") EXCEPT !.height = "0"],
      [VitalsForm("P1") EXCEPT !.heart_rate = "x"],
      [VitalsForm("P1") EXCEPT !.temperature = "  "],
      VitalsJson("P1"),
      [VitalsJson("P1") EXCEPT !.weight = JNull],
      [VitalsJson("P1") EXCEPT !.height = JStr("0")],
      [VitalsJson("P1") EXCEPT !.heartRate = JStr("x")],
      [VitalsJson("P1") EXCEPT !.temperature = JInt(0)],
      LegacyForm("P1"), [LegacyForm("P1") EXCEPT !.pulse = "x"] }

NextVitals ==
    \/ \E r \in VitalsRequests : Request(1, r)
    \/ patient_create(1)
    \/ patient_update(1)
    \/ patient_delete(1)
    \/ vitals_create(1)
    \/ api_vitals(1)
    \/ vitals_create_insert(1)
    \/ vitals_create_legacy(1)

SpecVitals == Init /\ [][NextVitals]_vars

(* The required numeric fields of a RecordVitals request, as submitted: the
   raw value, whether it is missing, and whether it parses as its type. *)
RequiredVitals(r) ==
    IF r.op = "vitals_create"
    THEN LET f(x, conv(_)) == [missing |-> field(x) = "", parses |-> conv(field(x)).ok]
         IN  << f(r.weight, float_of_str), f(r.height, float_of_str),
                f(r.blood_pressure_systolic, int_of_str),
                f(r.blood_pressure_diastolic, int_of_str),
                f(r.heart_rate, int_of_str), f(r.temperature, float_of_str) >>
    ELSE LET j(v, conv(_)) == [missing |-> v.t = "null", parses |-> conv(v).ok]
         IN  << j(r.weight, float_of_json), j(r.height, float_of_json),
                j(r.bloodPressureSystolic, int_of_json),
                j(r.bloodPressureDiastolic, int_of_json),
                j(r.heartRate, int_of_json), j(r.temperature, float_of_json) >>

(* C12: RecordVitals fails with InvalidInput and appends no record whenever a
   required numeric field (weight, height, systolic, diastolic, heart rate,
   temperature) is missing from the request or does not parse as its numeric
   type; a missing field is never replaced by a default value and stored. *)
C12_IncompleteVitalsRefused ==
    [][\A p \in Procs : \A h \in {"vitals_create", "api_vitals"} :
          (Enters(p, h) /\ ensure_db(db).err = "none"
              /\ \E k \in 1..6 : RequiredVitals(req[p])[k].missing
                                   \/ ~ RequiredVitals(req[p])[k].parses) =>
            (Completes(p) /\ resp'[p].status = "InvalidInput" /\ db' = db)]_vars

(* C13: every vitals record in every reachable state has weight > 0 and
   height > 0, so its BMI is defined (never null). *)
C13_VitalsHavePositiveWeightAndHeight ==
    \A v \in db.vitals : v.weight > 0 /\ v.height > 0 /\ v.bmi # NullInt

(* C14: vitals history is append-only: no operation changes a field of a
   vitals record once it is created, a record leaves the store only through
   DeletePatient of its patient, and so the vitals listed for a patient only
   gain records between deletions. *)
C14_VitalsAppendOnly ==
    [][LET Deleting(u) == \E p \in Procs :
                             pc[p] = "patient_delete" /\ req[p].usn = u /\ Completes(p)
       IN  /\ \A v \in db.vitals :
                \/ v \in db'.vitals
                \/ Deleting(v.usn) /\ ~ \E w \in db'.vitals : w.id = v.id
           /\ \A u \in {"P1", "P2"} :
                api_vitals_get(db, u) \subseteq api_vitals_get(db', u) \/ Deleting(u)]_vars

(* P1 and P2 each had a record; P1 was deleted and P2's record is there
   as it was recorded. *)
C14_Witness ==
    /\ resp[1].op = "patient_delete" /\ resp[1].status = "Ok"
    /\ db.seq["vitals"] = 2
    /\ api_vitals_get(db, "P1") = {}
    /\ \E v \in api_vitals_get(db, "P2") : v.weight = 70 /\ v.height = 175

----------------------------------------------------------------------------
(* Prescription items and the medication catalog; one worker. *)

RxItemForm(pid, med, dur) ==
    [PrescriptionItemForm(pid, med) EXCEPT !.duration_days = dur]

RxRequests ==
    { PatientForm("P1", "Ann", "30", "555"), PrescriptionForm("P1"), DeleteRequest("P1") }
        \cup {RxItemForm(pid, med, "7") : pid \in {"1", "2", "x", NULL},
                                          med \in {"Amox", "amox", NULL}}
        \cup {RxItemForm("1", "Amox", dur) : dur \in {"-5", "x", "0", NULL}}

NextRx ==
    \/ \E r \in RxRequests : Request(1, r)
    \/ patient_create(1)
    \/ patient_delete(1)
    \/ prescription_create(1)
    \/ prescription_create_insert(1)
    \/ prescription_item_create(1)
    \/ prescription_item_create_med(1)
    \/ prescription_item_create_item(1)
    \/ database_is_locked(1)
    \/ connection_finalized

SpecRx == Init /\ [][NextRx]_vars

ItemOps ==
    {"prescription_item_create", "prescription_item_create_med",
     "prescription_item_create_item"}

Named(d, name) == {m \in d.medications : m.name = name}

(* C15: in sequential use, AddPrescriptionItem with a medication name not
   yet in the catalog creates exactly one Medication row, and every later
   AddPrescriptionItem with the same (case-sensitive, exact) name references
   that row and adds no catalog row: the catalog never holds two rows of one
   name. *)
C15_MedicationCreatedOnce ==
    /\ [](\A a, b \in db.medications : a.name = b.name => a = b)
    /\ [][\A p \in Procs :
            (pc[p] \in ItemOps /\ Completes(p) /\ resp'[p].status = "Ok") =>
              LET name == field(req[p].med_name)
                  new  == db'.prescription_items \ db.prescription_items
              IN  /\ Cardinality(Named(db', name)) = 1
                  /\ db'.medications = db.medications \cup Named(db', name)
                  /\ Named(db, name) # {} => db'.medications = db.medications
                  /\ Cardinality(new) = 1
                  /\ \A it \in new : \E m \in Named(db', name) : it.medication_id = m.id]_vars

(* Two items prescribe "Amox", "amox" is in the catalog too, and the
   catalog has one row for each name. *)
C15_Witness ==
    /\ resp[1].op = "prescription_item_create" /\ resp[1].status = "Ok"
    /\ Cardinality(db.medications) = 2
    /\ Cardinality(Named(db, "Amox")) = 1 /\ Cardinality(Named(db, "amox")) = 1
    /\ db.seq["prescription_items"] = 2
    /\ \E it \in db.prescription_items :
          \E m \in Named(db, "Amox") : it.medication_id = m.id

(* C16: every prescription item's stored duration is null or a non-negative
   integer; AddPrescriptionItem with a duration that is not a non-negative
   integer still creates the item, with a null duration. *)
C16_DurationNullOrNonNegative ==
    \A it \in db.prescription_items :
        it.duration_days = NullInt \/ it.duration_days >= 0

(* C17: if AddPrescriptionItem fails after resolving the medication, nothing
   is persisted: the committed store changes during an AddPrescriptionItem
   only in the step that completes it successfully, and a failed call
   leaves neither an item nor the Medication row it inserted. *)
C17_FailedItemPersistsNothing ==
    [][\A p \in Procs :
          (pc[p] \in ItemOps /\ db' # db) =>
             (Completes(p) /\ resp'[p].status = "Ok")]_vars

(* The call inserted a Medication row, failed on the prescription id, and
   the catalog is empty; its connection still holds the write lock. *)
C17_Witness ==
    /\ resp[1].op = "prescription_item_create"
    /\ resp[1].status \in {"IntegrityError", "ValueError"}
    /\ db.medications = {} /\ db.prescription_items = {}
    /\ db.seq["medications"] = 0
    /\ wtxn.owner = Abandoned
    /\ db.prescriptions # {}

----------------------------------------------------------------------------
(* Appointments: creation, partial update, deletion; one worker. *)

(* SET column = ? in place of COALESCE(?, column) *)
coalesce_never(new, old) == new

(* COALESCE(?, column) *)
coalesce(new, old) == IF new = NULL THEN old ELSE new

(* UPDATE appointments SET status = COALESCE(?, status), ... WHERE id = ? *)
update_appointment(d, aid, f) ==
    Done([d EXCEPT !.appointments =
            { IF a.id = aid
              THEN [a EXCEPT !.status    = coalesce(f.status, @),
                             !.title     = coalesce(f.title, @),
                             !.clinician = coalesce(f.clinician, @),
                             !.notes     = coalesce(f.notes, @),
                             !.starts_at = coalesce(f.starts_at, @),
                             !.ends_at   = coalesce(f.ends_at, @)]
              ELSE a : a \in @ }], NoId)

(* DELETE FROM appointments WHERE id=? *)
delete_appointment(d, aid) ==
    Done([d EXCEPT !.appointments = {a \in @ : a.id # aid}], NoId)

ApptFields == {"status", "title", "clinician", "notes", "starts_at", "ends_at"}

(* POST /api/appointments/<aid>/update *)
api_appointments_update(p) ==
    /\ pc[p] = "api_appointments_update"
    /\ \/ HookFails(p)
       \/ /\ ensure_db(db).err = "none"
          /\ LockFree
          /\ LET f == [k \in ApptFields |-> field_or_none(req[p][k])]
             IN  db' = update_appointment(db, req[p].aid, f).db
          /\ Respond(p, Status(p, "Ok"))
          /\ UNCHANGED <<wtxn, clock>>

(* POST /api/appointments/<aid>/delete *)
api_appointments_delete(p) ==
    /\ pc[p] = "api_appointments_delete"
    /\ \/ HookFails(p)
       \/ /\ ensure_db(db).err = "none"
          /\ LockFree
          /\ db' = delete_appointment(db, req[p].aid).db
          /\ Respond(p, Status(p, "Ok"))
          /\ UNCHANGED <<wtxn, clock>>

(* A JSON body of POST /api/appointments/<aid>/update: NULL for a key the
   body omits (or gives as null). *)
ApptUpdateJson(aid, status, title, clinician, notes, st, en) ==
    [op |-> "api_appointments_update", aid |-> aid, status |-> status, title |-> title,
     clinician |-> clinician, notes |-> notes, starts_at |-> st, ends_at |-> en]

ApptDeleteRequest(aid) == [op |-> "api_appointments_delete", aid |-> aid]

MaxAid == MaxId + 1

ApptRequests ==
    { PatientForm("P1", "Ann", "30", "555"), DeleteRequest("P1"),
      AppointmentJson("P1", "09:00", "09:30"), AppointmentJson("P1", "10:00", "09:00"),
      AppointmentJson(NULL, "09:00", "09:30"), AppointmentJson("P1", NULL, "09:30"),
      AppointmentJson("P1", "09:00", "  "), AppointmentJson("P2", "09:00", "09:30"),
      AppointmentJson("P2", NULL, "09:30") }
        \cup {ApptUpdateJson(aid, "Cancelled", NULL, NULL, NULL, NULL, NULL) : aid \in 1..MaxAid}
        \cup {ApptUpdateJson(aid, NULL, NULL, " Dr X ", "", NULL, NULL) : aid \in 1..MaxAid}
        \cup {ApptUpdateJson(1, NULL, "recall", NULL, "fasting", "11:00", "11:30"),
              ApptUpdateJson(1, NULL, NULL, NULL, NULL, NULL, NULL)}
        \cup {ApptDeleteRequest(aid) : aid \in 1..MaxAid}

NextAppt ==
    \/ \E r \in ApptRequests : Request(1, r)
    \/ patient_create(1)
    \/ patient_delete(1)
    \/ api_appointments_create(1)
    \/ api_appointments_create_insert(1)
    \/ api_appointments_update(1)
    \/ api_appointments_delete(1)

SpecAppt == Init /\ [][NextAppt]_vars

(* C18, as claimed: a CreateAppointment that reaches its handler fails with
   InvalidInput when start or end is missing, and otherwise with
   PatientNotFound when the patient does not exist, storing nothing. *)
C18_InvalidOnlyForMissingTimes ==
    [][\A p \in Procs :
          (Enters(p, "api_appointments_create") /\ ensure_db(db).err = "none") =>
            LET usn == field(req[p].usn)
                st  == field(req[p].starts_at)
                en  == field(req[p].ends_at)
            IN  IF st = "" \/ en = ""
                THEN Completes(p) /\ resp'[p].status = "InvalidInput" /\ db' = db
                ELSE ~ PatientExists(db, usn) =>
                       (Completes(p) /\ resp'[p].status = "PatientNotFound" /\ db' = db)]_vars

(* C18, amended: CreateAppointment fails with InvalidInput when the patient
   identifier, the start or the end is empty after trimming; otherwise with
   PatientNotFound when the patient does not exist; nothing is stored in
   either case. Otherwise, served alone, it succeeds for any pair of start
   and end and adds exactly one appointment, with status "Scheduled" and the
   submitted patient, start and end. *)
C18_CreateAppointmentOutcomes ==
    [][\A p \in Procs :
          /\ Enters(p, "api_appointments_create") =>
               LET usn == field(req[p].usn)
                   st  == field(req[p].starts_at)
                   en  == field(req[p].ends_at)
                   Fails(e) == Completes(p) /\ resp'[p].status = e /\ db' = db
               IN  IF db.lab_tests = {} THEN Fails("NameError")
                   ELSE IF usn = "" \/ st = "" \/ en = "" THEN Fails("InvalidInput")
                   ELSE IF ~ PatientExists(db, usn) THEN Fails("PatientNotFound")
                   ELSE ~ Completes(p) /\ db' = db
          /\ Enters(p, "api_appointments_create_insert") =>
               LET new == db'.appointments \ db.appointments
               IN  /\ resp'[p].status = "Ok"
                   /\ db.appointments \subseteq db'.appointments
                   /\ Cardinality(new) = 1
                   /\ \A a \in new : /\ a.status = "Scheduled"
                                     /\ a.usn = field(req[p].usn)
                                     /\ a.starts_at = field(req[p].starts_at)
                                     /\ a.ends_at = field(req[p].ends_at)
                                     /\ a.id = resp'[p].id]_vars

(* An appointment that starts after it ends was just created. *)
C18_Witness ==
    /\ resp[1].op = "api_appointments_create" /\ resp[1].status = "Ok"
    /\ \E a \in db.appointments :
          /\ a.id = resp[1].id
          /\ a.starts_at = "10:00" /\ a.ends_at = "09:00" /\ a.status = "Scheduled"

(* C19, as claimed: UpdateAppointment sets each field the request provides
   to the provided value and leaves every omitted field, the patient
   reference and every other appointment unchanged; an id that matches no
   appointment changes nothing. *)
C19_ProvidedFieldsOverwrite ==
    [][\A p \in Procs :
          (pc[p] = "api_appointments_update" /\ Completes(p)
              /\ ensure_db(db).err = "none") =>
            db' = [db EXCEPT !.appointments =
                     { IF a.id = req[p].aid
                       THEN [k \in DOMAIN a |->
                               IF k \in ApptFields /\ req[p][k] # NULL
                               THEN req[p][k] ELSE a[k]]
                       ELSE a : a \in @ }]]_vars

(* C19, amended: UpdateAppointment sets each field whose provided value is
   non-empty after trimming to the trimmed value, and leaves every field
   that is omitted, null, empty or blank, the patient reference, the id and
   every other appointment unchanged; an id that matches no appointment
   changes nothing. *)
C19_NonEmptyFieldsOverwrite ==
    [][\A p \in Procs :
          (pc[p] = "api_appointments_update" /\ Completes(p)
              /\ ensure_db(db).err = "none") =>
            /\ resp'[p].status = "Ok"
            /\ db' = [db EXCEPT !.appointments =
                        { IF a.id = req[p].aid
                          THEN [k \in DOMAIN a |->
                                  IF k \in ApptFields /\ field(req[p][k]) # ""
                                  THEN strip(req[p][k]) ELSE a[k]]
                          ELSE a : a \in @ }]]_vars

(* Appointment 1 was rescheduled and annotated, and appointment 2 is as it
   was created. *)
C19_Witness ==
    /\ resp[1].op = "api_appointments_update" /\ resp[1].status = "Ok"
    /\ \E a, b \in db.appointments :
          /\ a.id = 1 /\ a.starts_at = "11:00" /\ a.notes = "fasting"
          /\ a.title = "recall" /\ a.status = "Scheduled" /\ a.clinician = NULL
          /\ b.id = 2 /\ b.title = "review" /\ b.notes = NULL


----------------------------------------------------------------------------
(* Exports *)

(* The join of export_csv: vitals joined to (usn, MAX(recorded_at)) grouped
   by usn, which keeps every row of a patient that carries the patient's
   greatest recorded_at (more than one when timestamps collide). *)
latest_vitals_rows(d) ==
    {v \in d.vitals :
        \A w \in d.vitals : w.usn = v.usn => w.recorded_at <= v.recorded_at}

(* vitals_map[v["usn"]] = v over the joined rows: one row per usn, the last
   one the cursor yields, in an order the query does not fix. *)
vitals_maps(d) ==
    LET joined == latest_vitals_rows(d)
        keys   == {v.usn : v \in joined}
    IN  {m \in [keys -> joined] : \A u \in keys : m[u].usn = u}

(* The vitals cells of an export.csv row for a patient without an entry in
   vitals_map. *)
NoVitalsCells ==
    [bp |-> "", pulse |-> "", temp |-> "", weight |-> "", height |-> "",
     vitals_time |-> ""]

(* The rows export_csv builds for a patient without vitals: one row with
   empty prescription cells, or one row per prescription of the patient.
   The two prescription cells of a row are kept as the set of prescriptions
   they are written from (none, or one). *)
export_rows(d, pt) ==
    LET related == {r \in d.prescriptions : r.usn = pt.usn}
        cells(r) == [notes |-> r.notes, prescribed_at |-> r.prescribed_at]
    IN  IF related = {}
        THEN {[patient |-> pt, vitals |-> NoVitalsCells, prescription |-> {}]}
        ELSE {[patient |-> pt, vitals |-> NoVitalsCells,
               prescription |-> {cells(r)}] : r \in related}

(* GET /export.csv. A row for a patient with an entry in vitals_map reads
   v["blood_pressure"], a column the vitals table does not have:
   sqlite3.Row raises IndexError and the request ends with a 500. *)
export_csv(p) ==
    /\ pc[p] = "export_csv"
    /\ \/ HookFails(p)
       \/ /\ ensure_db(db).err = "none"
          /\ UNCHANGED <<db, wtxn, clock>>
          /\ \E m \in vitals_maps(db) :
                IF \E pt \in db.patients : pt.usn \in DOMAIN m
                THEN Respond(p, Status(p, "IndexError"))
                ELSE Respond(p, [op |-> req[p].op, status |-> "Ok",
                                 rows |-> UNION {export_rows(db, pt) :
                                                 pt \in db.patients}])

(* SELECT id FROM vitals WHERE usn = p.usn ORDER BY recorded_at DESC LIMIT 1:
   the rows the subquery may yield (any of those with the greatest
   recorded_at). *)
first_by_recorded_at_desc(d, usn) ==
    {v \in d.vitals :
        /\ v.usn = usn
        /\ \A w \in d.vitals : w.usn = usn => w.recorded_at <= v.recorded_at}

(* The columns api_export_complete selects for patient pt left-joined to
   the vitals rows `joined` (the one row the subquery names, or none). *)
complete_row(d, pt, joined) ==
    LET val(k) == IF joined = {} THEN NullInt ELSE (CHOOSE v \in joined : TRUE)[k]
    IN  [patient |-> pt,
         latest_weight |-> val("weight"), latest_height |-> val("height"),
         latest_bmi |-> val("bmi"),
         latest_bp |-> IF \/ val("blood_pressure_systolic") = NullInt
                          \/ val("blood_pressure_diastolic") = NullInt
                       THEN <<>>
                       ELSE <<val("blood_pressure_systolic"),
                              val("blood_pressure_diastolic")>>,
         latest_hr |-> val("heart_rate"), latest_temp |-> val("temperature"),
         total_vitals |-> Cardinality({w \in d.vitals : w.usn = pt.usn}),
         total_prescriptions |->
             Cardinality({r \in d.prescriptions : r.usn = pt.usn})]

(* GET /api/export/complete *)
api_export_complete(p) ==
    /\ pc[p] = "api_export_complete"
    /\ \/ HookFails(p)
       \/ /\ ensure_db(db).err = "none"
          /\ UNCHANGED <<db, wtxn, clock>>
          /\ LET with == {pt.usn : pt \in {x \in db.patients :
                                     first_by_recorded_at_desc(db, x.usn) # {}}}
             IN  \E pick \in {f \in [with -> db.vitals] :
                                \A u \in with : f[u] \in first_by_recorded_at_desc(db, u)} :
                    Respond(p, [op |-> req[p].op, status |-> "Ok",
                                rows |-> {complete_row(db, pt,
                                            IF pt.usn \in with THEN {pick[pt.usn]} ELSE {}) :
                                          pt \in db.patients}])

ExportCsvRequest == [op |-> "export_csv"]

ExportCompleteRequest == [op |-> "api_export_complete"]

ExportRequests ==
    { PatientForm("P1", "Ann", "30", "555"), PatientForm("P2", "Bob", "30", "556"),
      VitalsForm("P1"), [VitalsForm("P1") EXCEPT !.weight = "80"],
      [VitalsForm("P2") EXCEPT !.weight = "90"], PrescriptionForm("P2"),
      ExportCsvRequest, ExportCompleteRequest }

NextExport ==
    \/ \E r \in ExportRequests : Request(1, r)
    \/ Tick
    \/ patient_create(1)
    \/ vitals_create(1)
    \/ vitals_create_insert(1)
    \/ prescription_create(1)
    \/ prescription_create_insert(1)
    \/ export_csv(1)
    \/ api_export_complete(1)

SpecExport == Init /\ [][NextExport]_vars

ExportOps == {"export_csv", "api_export_complete"}

(* The vitals an export row shows, and the same cells of vitals record v. *)
ShownVitals(op, row) ==
    IF op = "export_csv"
    THEN [weight |-> row.vitals.weight, height |-> row.vitals.height,
          temperature |-> row.vitals.temp]
    ELSE [weight |-> row.latest_weight, height |-> row.latest_height,
          temperature |-> row.latest_temp]

CellsOf(v) == [weight |-> v.weight, height |-> v.height, temperature |-> v.temperature]

EmptyCells(op) ==
    IF op = "export_csv"
    THEN [weight |-> "", height |-> "", temperature |-> ""]
    ELSE [weight |-> NullInt, height |-> NullInt, temperature |-> NullInt]

(* C20: an export that reaches its handler delivers, for every patient, at
   least one row; the rows of a patient with vitals all show one vitals
   record of the patient that has the greatest recorded timestamp among the
   patient's vitals, and the rows of a patient without vitals show empty
   vitals fields. *)
C20_ExportsShowLatestVitals ==
    [][\A p \in Procs :
        Completes(p) /\ req[p].op \in ExportOps /\ ensure_db(db).err = "none" =>
            /\ resp'[p].status = "Ok"
            /\ \A pt \in db.patients :
                 LET mine == {row \in resp'[p].rows : row.patient = pt}
                     vs   == api_vitals_get(db, pt.usn)
                 IN  /\ mine # {}
                     /\ IF vs = {}
                        THEN \A row \in mine :
                                ShownVitals(req[p].op, row) = EmptyCells(req[p].op)
                        ELSE \E v \in vs :
                                /\ \A w \in vs : w.recorded_at <= v.recorded_at
                                /\ \A row \in mine :
                                      ShownVitals(req[p].op, row) = CellsOf(v)]_vars


----------------------------------------------------------------------------
(* Prescription items added by two concurrent workers: worker 1 also
   registers the patient and writes the prescription. *)

RxWriterRequests ==
    { PatientForm("P1", "Ann", "30", "555"), PrescriptionForm("P1"),
      RxItemForm("1", "Amox", "7") }

RxPeerRequests == { RxItemForm("1", "Amox", "7"), RxItemForm("2", "Amox", "7") }

NextRxConc ==
    \/ \E r \in RxWriterRequests : Request(1, r)
    \/ \E r \in RxPeerRequests : Request(2, r)
    \/ patient_create(1)
    \/ prescription_create(1)
    \/ prescription_create_insert(1)
    \/ \E p \in Procs :
        \/ prescription_item_create(p)
        \/ prescription_item_create_med(p)
        \/ prescription_item_create_item(p)
        \/ database_is_locked(p)
    \/ connection_finalized

SpecRxConc == Init /\ [][NextRxConc]_vars

(* C21: with AddPrescriptionItem calls running concurrently, the catalog
   holds at most one Medication row of any name, and the items that were
   added under one name all reference that row. *)
C21_ConcurrentItemsShareOneMedication ==
    /\ \A a, b \in db.medications : a.name = b.name => a = b
    /\ \A i, j \in db.prescription_items :
          \A a, b \in db.medications :
             (a.id = i.medication_id /\ b.id = j.medication_id /\ a.name = b.name)
                => i.medication_id = j.medication_id


----------------------------------------------------------------------------
(* Results recorded for an item that does not exist *)

ResultOps == {"api_set_lab_result", "api_set_lab_result_order"}

(* C22: RecordLabResult with an item id that matches no lab order item
   leaves the whole store as it is, lab order items and lab orders
   included, and the call still ends with success. *)
C22_UnknownItemChangesNothing ==
    [][\A p \in Procs :
          ( /\ pc[p] \in ResultOps
            /\ ensure_db(db).err = "none"
            /\ ~ \E i \in db.lab_order_items : i.id = req[p].item_id ) =>
              /\ db' = db
              /\ Completes(p) => resp'[p].status = "Ok"]_vars

(* A RecordLabResult has just answered with success while the store holds
   lab order items and none of them is completed: the id it named matched
   none of them. *)
C22_Witness ==
    /\ resp[1].op = "api_set_lab_result" /\ resp[1].status = "Ok"
    /\ db.lab_order_items # {}
    /\ \A i \in db.lab_order_items : i.status # "Completed" /\ i.result_at = NullInt
    /\ \A o \in db.lab_orders : o.status = "Ordered"

====
